---------------------------- MODULE Spec2Model ----------------------------
(***************************************************************************)
(* A model of kokoro-playground's long-text synthesis (src/tts.py) and of  *)
(* its HTTP endpoints (src/api.py).                                         *)
(*                                                                         *)
(* Strings are sequences of one-character strings.  A waveform is a        *)
(* sequence of samples; a sample is a set of weighted terms, each term     *)
(* naming the synthesizer call and the position it came from, so that a    *)
(* sample that was blended, stretched or dropped can be told from one that *)
(* passed through unchanged.                                               *)
(***************************************************************************)
EXTENDS Integers, Sequences, FiniteSets, TLC

(***************************************************************************)
(* Bounds of the model.                                                    *)
(***************************************************************************)
MaxSentences == 3      \* sentences handed to the packing loop
MaxChars == 7          \* largest max_chars tried
MaxTextLen == 3        \* longest enumerated input text
MaxChunks == 3         \* chunks handed to the synthesis loop
MaxSamples == 4        \* longest waveform the synthesizer returns
MaxOverlap == 3        \* largest overlap_samples tried
MaxSegs == 2           \* segments one pipeline generator yields at most
MaxSegSamples == 2     \* longest segment a pipeline generator yields

VARIABLES
    pc,              \* position in process_long_text / in the endpoint
    text,            \* process_long_text: text
    max_chars,       \* process_long_text: max_chars
    overlap,         \* crossfade: overlap_samples
    sentences,       \* process_long_text: sentences
    chunks,          \* process_long_text: chunks
    current_chunk,   \* process_long_text: current_chunk
    current_length,  \* process_long_text: current_length
    si,              \* sentences already consumed by the packing loop
    all_audio,       \* process_long_text: all_audio
    all_phonemes,    \* process_long_text: all_phonemes
    final_audio,     \* process_long_text: final_audio
    ai,              \* segments already folded into final_audio
    calls,           \* chunk texts handed to generate(), in call order
    result,          \* what process_long_text returned (set: it did return)
    err,             \* the exception that ended the request ("" if none)
    endpoint,        \* the route of the request ("" for a direct call)
    voice,           \* request parameter voice
    format,          \* request parameter format
    status,          \* HTTP status answered (0: none yet)
    audio,           \* text_to_speech: audio (set: it is not None)
    yielded,         \* segments the current pipeline generator has yielded
    pipeline_calls,  \* texts handed to pipeline(), in call order
    api_chunks,      \* generate_audio_chunks: chunks
    ci,              \* chunks generate_audio_chunks has finished
    emitted,         \* encoded pieces already sent to the caller
    body             \* the buffered response body (set: there is one)

ltVars == <<pc, text, max_chars, overlap, sentences, chunks, current_chunk,
            current_length, si, all_audio, all_phonemes, final_audio, ai,
            calls, result, err>>

apiVars == <<endpoint, voice, format, status, audio, yielded, pipeline_calls,
             api_chunks, ci, emitted, body>>

vars == <<ltVars, apiVars>>

Min(a, b) == IF a < b THEN a ELSE b
Max(a, b) == IF a > b THEN a ELSE b

(***************************************************************************)
(* Python's str methods, on sequences of characters.                       *)
(***************************************************************************)
IsPrefixAt(s, pat, i) ==
    /\ i + Len(pat) - 1 <= Len(s)
    /\ \A j \in 1..Len(pat) : s[i + j - 1] = pat[j]

\* s.replace(pat, rep): leftmost non-overlapping occurrences, pat non-empty;
\* from position i on, the text up to the next occurrence is kept as it is
RECURSIVE ReplaceFrom(_, _, _, _)
ReplaceFrom(s, pat, rep, i) ==
    LET found == {k \in i..Len(s) : IsPrefixAt(s, pat, k)}
    IN  IF found = {} THEN SubSeq(s, i, Len(s))
        ELSE LET k == CHOOSE x \in found : \A y \in found : x <= y
             IN  SubSeq(s, i, k - 1) \o rep
                     \o ReplaceFrom(s, pat, rep, k + Len(pat))

Replace(s, pat, rep) == ReplaceFrom(s, pat, rep, 1)

\* s.split(sep) for a one-character sep: always at least one piece; cur is
\* the piece begun before position i
RECURSIVE SplitFrom(_, _, _, _)
SplitFrom(s, sep, i, cur) ==
    LET found == {k \in i..Len(s) : s[k] = sep}
    IN  IF found = {} THEN <<cur \o SubSeq(s, i, Len(s))>>
        ELSE LET k == CHOOSE x \in found : \A y \in found : x <= y
             IN  <<cur \o SubSeq(s, i, k - 1)>>
                     \o SplitFrom(s, sep, k + 1, <<>>)

Split(s, sep) == SplitFrom(s, sep, 1, <<>>)

Whitespace == {" ", "\t", "\n"}

\* s.strip()
Strip(s) ==
    LET keep == {i \in 1..Len(s) : s[i] \notin Whitespace}
    IN  IF keep = {} THEN <<>>
        ELSE LET lo == CHOOSE i \in keep : \A j \in keep : i <= j
                 hi == CHOOSE i \in keep : \A j \in keep : i >= j
             IN  SubSeq(s, lo, hi)

\* sep.join(parts)
RECURSIVE Join(_, _)
Join(parts, sep) ==
    IF Len(parts) = 0 THEN <<>>
    ELSE IF Len(parts) = 1 THEN parts[1]
    ELSE parts[1] \o sep \o Join(Tail(parts), sep)

\* a filter that keeps the empty pieces too
KeepAll(xs) == xs

\* [f(x) for x in xs if x]
RECURSIVE KeepNonEmpty(_)
KeepNonEmpty(xs) ==
    IF xs = <<>> THEN <<>>
    ELSE IF Head(xs) = <<>> THEN KeepNonEmpty(Tail(xs))
    ELSE <<Head(xs)>> \o KeepNonEmpty(Tail(xs))

(***************************************************************************)
(* The sentence segmenter of process_long_text.                            *)
(***************************************************************************)
\* The two non-ASCII characters of the source, as atomic characters.
Ellipsis == "U+2026"     \* the one-character horizontal ellipsis
IdeoStop == "U+3002"     \* the ideographic (full-width) full stop

\* a segmenter that leaves "?" as it is
NormalizeKeepsQuestion(t) ==
    Replace(Replace(Replace(t, <<".", ".", ".">>, <<Ellipsis>>),
                    <<IdeoStop>>, <<".">>),
            <<"!">>, <<"!", " ">>)

Normalize(t) ==
    Replace(Replace(Replace(Replace(t, <<".", ".", ".">>, <<Ellipsis>>),
                            <<IdeoStop>>, <<".">>),
                    <<"!">>, <<"!", " ">>),
            <<"?">>, <<"?", " ">>)

SplitSentences(t) ==
    LET pieces == Split(Normalize(t), ".")
        stripped == [i \in 1..Len(pieces) |-> Strip(pieces[i])]
        kept == KeepNonEmpty(stripped)
    IN  [i \in 1..Len(kept) |-> kept[i] \o <<".">>]

(***************************************************************************)
(* The packing loop of process_long_text.  A packer state is the triple   *)
(* of the loop's locals.                                                   *)
(***************************************************************************)
\* the test that closes the current chunk
Overflows(length, sentence, limit, chunk) ==
    length + Len(sentence) > limit /\ chunk # <<>>

\* chunks.append(' '.join(current_chunk))
CloseChunk(done, chunk) == Append(done, Join(chunk, <<" ">>))

\* a packer that starts the next chunk empty, losing the sentence that
\* closed the previous one
StartChunkEmpty(sentence) == <<>>

\* the accumulator after a chunk was closed on `sentence`
StartChunk(sentence) == <<sentence>>

\* one iteration of `for sentence in sentences`
PackOne(st, sentence, limit) ==
    IF Overflows(st.current_length, sentence, limit, st.current_chunk)
    THEN [chunks |-> CloseChunk(st.chunks, st.current_chunk),
          current_chunk |-> StartChunk(sentence),
          current_length |-> Len(sentence)]
    ELSE [chunks |-> st.chunks,
          current_chunk |-> Append(st.current_chunk, sentence),
          current_length |-> st.current_length + Len(sentence)]

\* `if current_chunk: chunks.append(...)` after the loop
PackLast(done, chunk) == IF chunk # <<>> THEN CloseChunk(done, chunk) ELSE done

(***************************************************************************)
(* Waveforms.  Each sample is the set of its weighted terms; a term names   *)
(* the waveform and the position the synthesizer produced it at.           *)
(***************************************************************************)
Term(id, j) == [c |-> id, p |-> j, n |-> 1, d |-> 1]

\* the n-sample waveform `id`, id = <<call, segment of that call>>
Wave(id, n) == [j \in 1..n |-> {Term(id, j)}]

\* torch.linspace(start, end, steps), as fractions <<numerator, denominator>>
Linspace(start, end, steps) ==
    IF steps = 1 THEN <<(<<start, 1>>)>>
    ELSE [i \in 1..steps |->
             <<start * (steps - 1) + (i - 1) * (end - start), steps - 1>>]

\* a sample times a fraction
Scale(x, f) == {[t EXCEPT !.n = t.n * f[1], !.d = t.d * f[2]] : t \in x}

Ok(w) == [ok |-> TRUE, v |-> w]
ShapeError == [ok |-> FALSE, v |-> <<>>]

\* tensor * tensor with torch's broadcasting of one-dimensional shapes: equal
\* sizes go elementwise, a size of 1 is stretched, anything else raises
Mul(x, f) ==
    IF Len(x) = Len(f) THEN Ok([i \in 1..Len(x) |-> Scale(x[i], f[i])])
    ELSE IF Len(x) = 1 THEN Ok([i \in 1..Len(f) |-> Scale(x[1], f[i])])
    ELSE IF Len(f) = 1 THEN Ok([i \in 1..Len(x) |-> Scale(x[i], f[1])])
    ELSE ShapeError

\* tensor + tensor, same broadcasting
Add(x, y) ==
    IF Len(x) = Len(y) THEN Ok([i \in 1..Len(x) |-> x[i] \cup y[i]])
    ELSE IF Len(x) = 1 THEN Ok([i \in 1..Len(y) |-> x[1] \cup y[i]])
    ELSE IF Len(y) = 1 THEN Ok([i \in 1..Len(x) |-> x[i] \cup y[1]])
    ELSE ShapeError

\* Python slices of a one-dimensional tensor (indices are clamped)
LastK(a, k) == IF k = 0 THEN a ELSE SubSeq(a, Max(Len(a) - k, 0) + 1, Len(a))
\* slices a mistaken crossfade would take: a[k:] for a[:-k], b for b[k:]
DropLastKFromFront(a, k) == SubSeq(a, Min(k, Len(a)) + 1, Len(a))
DropFirstKKeepsAll(b, k) == b

DropLastK(a, k) == IF k = 0 THEN <<>> ELSE SubSeq(a, 1, Max(Len(a) - k, 0))
FirstK(b, k) == SubSeq(b, 1, Min(k, Len(b)))
DropFirstK(b, k) == SubSeq(b, Min(k, Len(b)) + 1, Len(b))

\* crossfade(a, b, overlap_samples)
crossfade(a, b, k) ==
    LET fade_out == Linspace(1, 0, k)
        fade_in == Linspace(0, 1, k)
        a_end == Mul(LastK(a, k), fade_out)
        b_start == Mul(FirstK(b, k), fade_in)
    IN  IF ~a_end.ok \/ ~b_start.ok THEN ShapeError
        ELSE LET mixed == Add(a_end.v, b_start.v)
             IN  IF ~mixed.ok THEN ShapeError
                 ELSE Ok(DropLastK(a, k) \o mixed.v \o DropFirstK(b, k))

(***************************************************************************)
(* process_long_text, one action per step of its loops.                    *)
(***************************************************************************)
NoResult == [set |-> FALSE, audio |-> <<>>, phonemes |-> <<>>]

Segment ==
    /\ pc = "segment"
    /\ sentences' = SplitSentences(text)
    /\ pc' = "pack"
    /\ UNCHANGED <<apiVars, text, max_chars, overlap, chunks, current_chunk,
                   current_length, si, all_audio, all_phonemes, final_audio,
                   ai, calls, result, err>>

PackStep ==
    /\ pc = "pack"
    /\ si < Len(sentences)
    /\ LET st == PackOne([chunks |-> chunks, current_chunk |-> current_chunk,
                          current_length |-> current_length],
                         sentences[si + 1], max_chars)
       IN  /\ chunks' = st.chunks
           /\ current_chunk' = st.current_chunk
           /\ current_length' = st.current_length
    /\ si' = si + 1
    /\ UNCHANGED <<apiVars, pc, text, max_chars, overlap, sentences, all_audio,
                   all_phonemes, final_audio, ai, calls, result, err>>

PackFinish ==
    /\ pc = "pack"
    /\ si = Len(sentences)
    /\ chunks' = PackLast(chunks, current_chunk)
    /\ pc' = "generate"
    /\ UNCHANGED <<apiVars, text, max_chars, overlap, sentences, current_chunk,
                   current_length, si, all_audio, all_phonemes, final_audio,
                   ai, calls, result, err>>

\* generate() returns a waveform of any length for the next chunk
GenerateOk ==
    /\ pc = "generate"
    /\ Len(all_audio) < Len(chunks)
    /\ LET i == Len(all_audio) + 1
       IN  /\ calls' = Append(calls, chunks[i])
           /\ \E n \in 0..MaxSamples : all_audio' = Append(all_audio, Wave(<<i, 1>>, n))
           /\ all_phonemes' = Append(all_phonemes, i)
    /\ UNCHANGED <<apiVars, pc, text, max_chars, overlap, sentences, chunks,
                   current_chunk, current_length, si, final_audio, ai, result,
                   err>>

\* a loop that catches the exception and goes on with an empty segment
GenerateRaisesCaught ==
    /\ pc = "generate"
    /\ Len(all_audio) < Len(chunks)
    /\ calls' = Append(calls, chunks[Len(all_audio) + 1])
    /\ all_audio' = Append(all_audio, <<>>)
    /\ err' = "SynthesisError"
    /\ UNCHANGED <<apiVars, pc, text, max_chars, overlap, sentences, chunks,
                   current_chunk, current_length, si, all_phonemes,
                   final_audio, ai, result>>

\* generate() raises: nothing in process_long_text catches it
GenerateRaises ==
    /\ pc = "generate"
    /\ Len(all_audio) < Len(chunks)
    /\ calls' = Append(calls, chunks[Len(all_audio) + 1])
    /\ pc' = "raised"
    /\ err' = "SynthesisError"
    /\ UNCHANGED <<apiVars, text, max_chars, overlap, sentences, chunks, current_chunk,
                   current_length, si, all_audio, all_phonemes, final_audio,
                   ai, result>>

\* final_audio = all_audio[0]
StitchFirst ==
    /\ pc = "generate"
    /\ Len(all_audio) = Len(chunks)
    /\ IF all_audio = <<>>
       THEN /\ pc' = "raised"
            /\ err' = "IndexError"
            /\ UNCHANGED <<final_audio, ai>>
       ELSE /\ final_audio' = all_audio[1]
            /\ ai' = 1
            /\ pc' = "stitch"
            /\ err' = err
    /\ UNCHANGED <<apiVars, text, max_chars, overlap, sentences, chunks, current_chunk,
                   current_length, si, all_audio, all_phonemes, calls, result>>

\* final_audio = crossfade(final_audio, next_audio)
CrossfadeStep ==
    /\ pc = "stitch"
    /\ ai < Len(all_audio)
    /\ LET r == crossfade(final_audio, all_audio[ai + 1], overlap)
       IN  IF r.ok
           THEN /\ final_audio' = r.v
                /\ ai' = ai + 1
                /\ UNCHANGED <<pc, err>>
           ELSE /\ pc' = "raised"
                /\ err' = "RuntimeError"
                /\ UNCHANGED <<final_audio, ai>>
    /\ UNCHANGED <<apiVars, text, max_chars, overlap, sentences, chunks, current_chunk,
                   current_length, si, all_audio, all_phonemes, calls, result>>

\* return final_audio.numpy(), all_phonemes
Return ==
    /\ pc = "stitch"
    /\ ai = Len(all_audio)
    /\ result' = [set |-> TRUE, audio |-> final_audio, phonemes |-> all_phonemes]
    /\ pc' = "done"
    /\ UNCHANGED <<apiVars, text, max_chars, overlap, sentences, chunks, current_chunk,
                   current_length, si, all_audio, all_phonemes, final_audio,
                   ai, calls, err>>

(***************************************************************************)
(* The HTTP endpoints of api.py.                                           *)
(***************************************************************************)
\* the keys of `pipelines`
pipelines == {"a", "b", "f", "h"}

\* the formats text_to_speech accepts
SupportedFormats == {"mp3", "wav", "ogg", "aac", "opus"}

\* generate_audio_chunks: chunk_size
chunk_size == 200

\* the names api.py binds at module level by its import statements
ImportedNames ==
    {"FastAPI", "HTTPException", "StreamingResponse", "Response",
     "HTMLResponse", "io", "KPipeline", "sf", "AudioSegment", "asyncio",
     "AsyncGenerator", "AsyncOpenAI"}

\* np.concatenate([x, y]): evaluating the name np comes first
NpConcatenate(x, y) ==
    IF "np" \in ImportedNames THEN [ok |-> TRUE, v |-> x \o y, e |-> ""]
    ELSE [ok |-> FALSE, v |-> <<>>, e |-> "NameError"]

\* what `raise HTTPException(status_code=c)` raises
HTTPException(c) == [kind |-> "HTTPException", status_code |-> c]
Raised(kind) == [kind |-> kind, status_code |-> 0]

\* the handlers' `except Exception as e: raise HTTPException(status_code=500)`.
\* HTTPException is an Exception, so the clause also catches the handler's own
\* HTTPException(400).
ExceptClause(e) == HTTPException(500)

\* lang_code = voice[0]; if lang_code not in pipelines: raise HTTPException(400)
LangCodeCheck(v) ==
    IF v = <<>> THEN Raised("IndexError")
    ELSE IF v[1] \notin pipelines THEN HTTPException(400)
    ELSE Raised("")

\* a chunker that hands the whole text to the pipeline as one chunk
SlicesWhole(t, size) == IF Len(t) = 0 THEN <<>> ELSE <<t>>

\* [text[i:i + size] for i in range(0, len(text), size)]
RECURSIVE Slices(_, _)
Slices(t, size) ==
    IF Len(t) = 0 THEN <<>>
    ELSE <<SubSeq(t, 1, Min(size, Len(t)))>>
         \o Slices(SubSeq(t, Min(size, Len(t)) + 1, Len(t)), size)

\* sf.write to WAV, AudioSegment.from_wav, export: the bytes of `fmt` audio
\* that decode to (an approximation of) the waveform w
Encode(w, fmt) == [set |-> TRUE, format |-> fmt, pcm |-> w]

\* a generator that puts its pieces out last first
EmitFirst(sent, piece) == <<piece>> \o sent

\* yield chunk_buffer.getvalue()
Emit(sent, piece) == Append(sent, piece)

\* a handler that leaves through its except clause
Fails(e) ==
    /\ status' = ExceptClause(e).status_code
    /\ err' = e.kind
    /\ pc' = "responded"

ltLocals == <<max_chars, overlap, sentences, chunks, current_chunk,
              current_length, si, all_audio, all_phonemes, final_audio, ai,
              calls, result>>

\* text_to_speech and text_to_speech_stream_file up to `generator = pipeline(...)`;
\* only text_to_speech validates the format
BufferedStart(route, validatesFormat) ==
    /\ pc = "request"
    /\ endpoint = route
    /\ IF validatesFormat /\ format \notin SupportedFormats
       THEN Fails(HTTPException(400)) /\ UNCHANGED pipeline_calls
       ELSE IF LangCodeCheck(voice).kind # ""
       THEN Fails(LangCodeCheck(voice)) /\ UNCHANGED pipeline_calls
       ELSE /\ pipeline_calls' = Append(pipeline_calls, text)
            /\ pc' = "drain"
            /\ UNCHANGED <<status, err>>
    /\ UNCHANGED <<ltLocals, text, endpoint, voice, format, audio, yielded,
                   api_chunks, ci, emitted, body>>

TtsStart == BufferedStart("tts", TRUE)

StreamFileStart == BufferedStart("stream_file", FALSE)

\* `for _, _, audio_chunk in generator`: the generator yields a segment
DrainYield ==
    /\ pc = "drain"
    /\ yielded < MaxSegs
    /\ \E n \in 1..MaxSegSamples :
          LET audio_chunk == Wave(<<Len(pipeline_calls), yielded + 1>>, n)
              joined == NpConcatenate(audio.v, audio_chunk)
          IN  IF ~audio.set
              THEN /\ audio' = [set |-> TRUE, v |-> audio_chunk]
                   /\ UNCHANGED <<pc, status, err>>
              ELSE IF joined.ok
              THEN /\ audio' = [set |-> TRUE, v |-> joined.v]
                   /\ UNCHANGED <<pc, status, err>>
              ELSE /\ Fails(Raised(joined.e))
                   /\ UNCHANGED audio
    /\ yielded' = yielded + 1
    /\ UNCHANGED <<ltLocals, text, endpoint, voice, format, pipeline_calls,
                   api_chunks, ci, emitted, body>>

\* the generator raises
DrainRaises ==
    /\ pc = "drain"
    /\ Fails(Raised("SynthesisError"))
    /\ UNCHANGED <<ltLocals, text, endpoint, voice, format, audio, yielded,
                   pipeline_calls, api_chunks, ci, emitted, body>>

\* the generator is exhausted: encode and answer.  sf.write raises on None;
\* stream-file hands any format to export and looks it up in content_types
DrainDone ==
    /\ pc = "drain"
    /\ IF ~audio.set THEN Fails(Raised("TypeError")) /\ UNCHANGED body
       ELSE IF format \notin SupportedFormats
       THEN Fails(Raised("EncodeError")) /\ UNCHANGED body
       ELSE /\ body' = Encode(audio.v, format)
            /\ status' = 200
            /\ pc' = "responded"
            /\ err' = err
    /\ UNCHANGED <<ltLocals, text, endpoint, voice, format, audio, yielded,
                   pipeline_calls, api_chunks, ci, emitted>>

\* the generator is exhausted, and the encoder raises
DrainEncodeRaises ==
    /\ pc = "drain"
    /\ audio.set
    /\ Fails(Raised("EncodeError"))
    /\ UNCHANGED <<ltLocals, text, endpoint, voice, format, audio, yielded,
                   pipeline_calls, api_chunks, ci, emitted, body>>

\* text_to_speech_stream: the response starts (status 200) before the body
\* iterator runs
StreamStart ==
    /\ pc = "request"
    /\ endpoint = "stream"
    /\ IF LangCodeCheck(voice).kind # ""
       THEN Fails(LangCodeCheck(voice))
       ELSE /\ status' = 200
            /\ pc' = "stream_begin"
            /\ err' = err
    /\ UNCHANGED <<ltLocals, text, endpoint, voice, format, audio, yielded,
                   pipeline_calls, api_chunks, ci, emitted, body>>

\* generate_audio_chunks up to its loop
StreamBegin ==
    /\ pc = "stream_begin"
    /\ api_chunks' = Slices(text, chunk_size)
    /\ pc' = "stream_loop"
    /\ UNCHANGED <<ltLocals, text, endpoint, voice, format, status, audio,
                   yielded, pipeline_calls, ci, emitted, body, err>>

\* generator = pipeline(chunk, voice=voice)
StreamCall ==
    /\ pc = "stream_loop"
    /\ ci < Len(api_chunks)
    /\ pipeline_calls' = Append(pipeline_calls, api_chunks[ci + 1])
    /\ yielded' = 0
    /\ pc' = "stream_drain"
    /\ UNCHANGED <<ltLocals, text, endpoint, voice, format, status, audio,
                   api_chunks, ci, emitted, body, err>>

\* the generator yields a segment: encode it to MP3, yield it, sleep
StreamYield ==
    /\ pc = "stream_drain"
    /\ yielded < MaxSegs
    /\ \E n \in 1..MaxSegSamples :
          emitted' = Emit(emitted,
                          Encode(Wave(<<Len(pipeline_calls), yielded + 1>>, n),
                                 "mp3"))
    /\ yielded' = yielded + 1
    /\ UNCHANGED <<ltLocals, text, endpoint, voice, format, status, audio,
                   pipeline_calls, api_chunks, ci, body, pc, err>>

\* the generator yields a segment and the encoder raises: the stream breaks
StreamEncodeRaises ==
    /\ pc = "stream_drain"
    /\ yielded < MaxSegs
    /\ yielded' = yielded + 1
    /\ err' = "EncodeError"
    /\ pc' = "aborted"
    /\ UNCHANGED <<ltLocals, text, endpoint, voice, format, status, audio,
                   pipeline_calls, api_chunks, ci, emitted, body>>

\* the generator raises: the stream breaks
StreamRaises ==
    /\ pc = "stream_drain"
    /\ err' = "SynthesisError"
    /\ pc' = "aborted"
    /\ UNCHANGED <<ltLocals, text, endpoint, voice, format, status, audio,
                   yielded, pipeline_calls, api_chunks, ci, emitted, body>>

\* the generator is exhausted: on to the next chunk
StreamChunkDone ==
    /\ pc = "stream_drain"
    /\ ci' = ci + 1
    /\ pc' = "stream_loop"
    /\ UNCHANGED <<ltLocals, text, endpoint, voice, format, status, audio,
                   yielded, pipeline_calls, api_chunks, emitted, body, err>>

\* no chunk is left: the body is complete
StreamEnd ==
    /\ pc = "stream_loop"
    /\ ci = Len(api_chunks)
    /\ pc' = "responded"
    /\ UNCHANGED <<ltLocals, text, endpoint, voice, format, status, audio,
                   yielded, pipeline_calls, api_chunks, ci, emitted, body, err>>

\* a generator that catches the cancellation and carries on
DisconnectIgnored ==
    /\ endpoint = "stream"
    /\ pc = "stream_drain"
    /\ yielded >= 1
    /\ err = ""
    /\ err' = "CancelledError"
    /\ UNCHANGED <<ltLocals, text, endpoint, voice, format, status, audio,
                   yielded, pipeline_calls, api_chunks, ci, emitted, body, pc>>

\* the caller disconnects mid-stream: the server cancels the body iterator,
\* and the CancelledError surfaces where generate_audio_chunks is suspended,
\* at the `yield` / `await asyncio.sleep(0.1)` after a piece; nothing in the
\* generator catches it, so the generator ends there
Disconnect ==
    /\ endpoint = "stream"
    /\ pc = "stream_drain"
    /\ yielded >= 1
    /\ err = ""
    /\ err' = "CancelledError"
    /\ pc' = "cancelled"
    /\ UNCHANGED <<ltLocals, text, endpoint, voice, format, status, audio,
                   yielded, pipeline_calls, api_chunks, ci, emitted, body>>

NextApi ==
    \/ TtsStart
    \/ StreamFileStart
    \/ DrainYield
    \/ DrainRaises
    \/ DrainDone
    \/ DrainEncodeRaises
    \/ StreamStart
    \/ StreamBegin
    \/ StreamCall
    \/ StreamYield
    \/ StreamEncodeRaises
    \/ StreamRaises
    \/ StreamChunkDone
    \/ StreamEnd
    \/ Disconnect

(***************************************************************************)
(* Initial states.                                                         *)
(***************************************************************************)
\* sequences over S of length 0..n
SeqsUpTo(S, n) == UNION {[1..m -> S] : m \in 0..n}

\* the locals of text_to_speech and generate_audio_chunks before any request
ApiIdle ==
    /\ endpoint = ""
    /\ voice = <<>>
    /\ format = ""
    /\ status = 0
    /\ audio = [set |-> FALSE, v |-> <<>>]
    /\ yielded = 0
    /\ pipeline_calls = <<>>
    /\ api_chunks = <<>>
    /\ ci = 0
    /\ emitted = <<>>
    /\ body = [set |-> FALSE, format |-> "", pcm |-> <<>>]

\* the locals of process_long_text at its first statement
LongTextEntry ==
    /\ sentences = <<>>
    /\ chunks = <<>>
    /\ current_chunk = <<>>
    /\ current_length = 0
    /\ si = 0
    /\ all_audio = <<>>
    /\ all_phonemes = <<>>
    /\ final_audio = <<>>
    /\ ai = 0
    /\ calls = <<>>
    /\ result = NoResult
    /\ err = ""

\* sentences as the segmenter produces them: stripped, non-empty, ending in
\* the only "." they hold
SentencePool == {<<"a", ".">>, <<"b", "b", ".">>, <<"c", " ", "c", ".">>}

\* the packing loop run to its end, as one value
RECURSIVE PackFrom(_, _, _, _)
PackFrom(st, sents, i, limit) ==
    IF i > Len(sents) THEN st
    ELSE PackFrom(PackOne(st, sents[i], limit), sents, i + 1, limit)

AfterPacking(sents, limit) ==
    LET st == PackFrom([chunks |-> <<>>, current_chunk |-> <<>>,
                        current_length |-> 0], sents, 1, limit)
    IN  [st EXCEPT !.chunks = PackLast(st.chunks, st.current_chunk)]

\* process_long_text about to enter its packing loop, for every short list of
\* sentences and every max_chars
InitPack ==
    /\ ApiIdle
    /\ pc = "pack"
    /\ sentences \in SeqsUpTo(SentencePool, MaxSentences)
    /\ text = Join(sentences, <<" ">>)
    /\ SplitSentences(text) = sentences
    /\ max_chars \in 1..MaxChars
    /\ overlap = 1
    /\ chunks = <<>>
    /\ current_chunk = <<>>
    /\ current_length = 0
    /\ si = 0
    /\ all_audio = <<>>
    /\ all_phonemes = <<>>
    /\ final_audio = <<>>
    /\ ai = 0
    /\ calls = <<>>
    /\ result = NoResult
    /\ err = ""

NextPack == PackStep \/ PackFinish

SpecPack == InitPack /\ [][NextPack]_vars

\* the sentence of n characters "a...a."
SentenceOfLen(n) == [j \in 1..n |-> IF j < n THEN "a" ELSE "."]

\* process_long_text about to enter its synthesis loop with 0..MaxChunks
\* one-sentence chunks, no two alike, for every overlap_samples
InitStitch ==
    /\ ApiIdle
    /\ pc = "generate"
    /\ \E n \in 0..MaxChunks : sentences = [i \in 1..n |-> SentenceOfLen(i + 1)]
    /\ text = Join(sentences, <<" ">>)
    /\ SplitSentences(text) = sentences
    /\ max_chars = 1
    /\ overlap \in 1..MaxOverlap
    /\ LET st == AfterPacking(sentences, max_chars)
       IN  /\ chunks = st.chunks
           /\ current_chunk = st.current_chunk
           /\ current_length = st.current_length
    /\ si = Len(sentences)
    /\ all_audio = <<>>
    /\ all_phonemes = <<>>
    /\ final_audio = <<>>
    /\ ai = 0
    /\ calls = <<>>
    /\ result = NoResult
    /\ err = ""

NextStitch ==
    GenerateOk \/ GenerateRaises \/ StitchFirst \/ CrossfadeStep \/ Return

\* the characters input texts are drawn from
Alphabet == {"a", " ", ".", "?", "!", IdeoStop}

ScenarioText == <<"H", "e", "l", "l", "o", " ", "t", "h", "e", "r", "e", ".", " ", "H", "o", "w", " ", "a", "r", "e", " ", "y", "o", "u", "?", " ", "I", " ", "a", "m", " ", "f", "i", "n", "e", ".">>

\* process_long_text called on a short text
InitText ==
    /\ ApiIdle
    /\ pc = "segment"
    /\ text \in SeqsUpTo(Alphabet, MaxTextLen)
    /\ max_chars \in {2, 4}
    /\ overlap \in 1..MaxOverlap
    /\ LongTextEntry

\* process_long_text called on the scenario text of the specification, with
\* max_chars = 15
InitScenario ==
    /\ ApiIdle
    /\ pc = "segment"
    /\ text = ScenarioText
    /\ max_chars = 15
    /\ overlap \in 1..MaxOverlap
    /\ LongTextEntry

NextLong ==
    \/ Segment
    \/ PackStep
    \/ PackFinish
    \/ NextStitch

Spec == (InitText \/ InitScenario) /\ [][NextLong]_vars

(***************************************************************************)
(* Claims about the packing loop (SpecPack).                               *)
(***************************************************************************)
\* chs are the joins of consecutive non-empty blocks of sents that cover
\* sents from its first sentence to its last: ends[j] is the index of the
\* last sentence of chunk j
IsPartition(chs, sents) ==
    IF Len(chs) = 0 THEN Len(sents) = 0
    ELSE /\ Len(chs) <= Len(sents)
         /\ \E ends \in [1..Len(chs) -> 1..Len(sents)] :
               /\ ends[Len(chs)] = Len(sents)
               /\ \A j \in 1..Len(chs) :
                     LET from == IF j = 1 THEN 1 ELSE ends[j - 1] + 1
                     IN  /\ from <= ends[j]
                         /\ chs[j] = Join(SubSeq(sents, from, ends[j]), <<" ">>)

\* C1 (packing completeness): when the packing loop has ended, the chunks
\* are non-empty, each is the join of a block of consecutive sentences, and
\* the blocks cover the sentence list once, in order: no sentence is left
\* out or repeated, and the chunks joined with spaces read as the sentences
\* joined with spaces.
C1_PackingComplete ==
    pc = "generate" =>
        /\ IsPartition(chunks, sentences)
        /\ \A j \in 1..Len(chunks) : chunks[j] # <<>>
        /\ Join(chunks, <<" ">>) = Join(sentences, <<" ">>)

\* three sentences were packed into two chunks, one of them holding two
C1_Witness ==
    /\ pc = "generate"
    /\ Len(sentences) = 3
    /\ Len(chunks) = 2

\* C2 (packing bound), as claimed: every chunk string is at most max_chars
\* long unless it is a single sentence that is itself longer than max_chars.
C2_PackingBound ==
    pc = "generate" =>
        \A j \in 1..Len(chunks) :
            \/ Len(chunks[j]) <= max_chars
            \/ /\ \E i \in 1..Len(sentences) : chunks[j] = sentences[i]
               /\ Len(chunks[j]) > max_chars

(***************************************************************************)
(* Claims about crossfade and the fold of process_long_text (SpecStitch).  *)
(***************************************************************************)
SpecStitch == InitStitch /\ [][NextStitch]_vars

\* the first n segments all hold at least overlap samples
AllLong(n) == \A i \in 1..n : Len(all_audio[i]) >= overlap

RECURSIVE SumLen(_)
SumLen(n) == IF n = 0 THEN 0 ELSE SumLen(n - 1) + Len(all_audio[n])

\* where a sample came from: the <<waveform, position>> of each of its terms
Sources(x) == {<<t.c, t.p>> : t \in x}

\* C3 (crossfade length law): while the segments folded so far all hold at
\* least overlap samples, the accumulated waveform holds the sum of their
\* sample counts minus overlap for each crossfade done, and still at least
\* overlap samples; the returned waveform of N such segments holds
\* sum(ci) - (N-1)*overlap samples; and the fold does not fail on them.
C3_CrossfadeLength ==
    /\ (pc \in {"stitch", "done"} /\ AllLong(ai)) =>
          /\ Len(final_audio) = SumLen(ai) - (ai - 1) * overlap
          /\ Len(final_audio) >= overlap
    /\ (pc = "done" /\ AllLong(Len(all_audio))) =>
          /\ result.set
          /\ Len(result.audio) =
                SumLen(Len(all_audio)) - (Len(all_audio) - 1) * overlap
    /\ (pc = "raised" /\ err = "RuntimeError") => ~AllLong(ai + 1)

\* three segments, each long enough and not all of the same length, were
\* stitched and returned
C3_Witness ==
    /\ pc = "done"
    /\ Len(all_audio) = 3
    /\ overlap >= 2
    /\ AllLong(3)
    /\ Len(all_audio[1]) # Len(all_audio[2])

\* C4 (stitch order preservation): a crossfade of a and b, both holding at
\* least overlap samples, returns len(a) + len(b) - overlap samples: first
\* a's samples but its last overlap ones, unchanged; then overlap samples,
\* the j-th mixed from the j-th of a's last overlap samples and the j-th of
\* b's first; then b's samples but its first overlap ones, unchanged.
C4_StitchOrder ==
    [][(/\ pc = "stitch"
        /\ ai < Len(all_audio)
        /\ Len(final_audio) >= overlap
        /\ Len(all_audio[ai + 1]) >= overlap)
       => LET a == final_audio
              b == all_audio[ai + 1]
              r == final_audio'
              keep == Len(final_audio) - overlap
          IN  /\ pc' = "stitch"
              /\ ai' = ai + 1
              /\ Len(r) = Len(a) + Len(b) - overlap
              /\ SubSeq(r, 1, keep) = SubSeq(a, 1, keep)
              /\ SubSeq(r, Len(a) + 1, Len(r)) = SubSeq(b, overlap + 1, Len(b))
              /\ \A j \in 1..overlap :
                    Sources(r[keep + j]) = Sources(a[keep + j]) \cup Sources(b[j])
      ]_vars

\* two segments, each longer than overlap, have been crossfaded
C4_Witness ==
    /\ pc = "stitch"
    /\ ai = 2
    /\ overlap >= 2
    /\ Len(all_audio[1]) > overlap
    /\ Len(all_audio[2]) > overlap
    /\ Len(final_audio) = Len(all_audio[1]) + Len(all_audio[2]) - overlap

\* C5 (stitcher precondition guard), as claimed: a crossfade given an
\* argument with fewer than overlap samples ends the request with an error.
\* (Stated for overlap >= 2: the program's own overlap is 2000.)
C5_StitcherGuard ==
    [][(/\ pc = "stitch"
        /\ overlap >= 2
        /\ ai < Len(all_audio)
        /\ \/ Len(final_audio) < overlap
           \/ Len(all_audio[ai + 1]) < overlap)
       => pc' = "raised"
      ]_vars

(***************************************************************************)
(* Requests to the endpoints.                                              *)
(***************************************************************************)
Voices == {<<"a", "f", "_", "h", "e", "a", "r", "t">>, <<"z", "z", "_", "t", "e", "s", "t">>, <<>>}

Formats == SupportedFormats \cup {"xyz"}

\* a text of n characters whose chunk_size-wide slices differ
TextOfLen(n) ==
    [i \in 1..n |-> IF i <= chunk_size THEN "a"
                    ELSE IF i <= 2 * chunk_size THEN "b" ELSE "c"]

\* a text of two sentences, 150 and 100 letters long, each ending in "."
TwoSentenceText ==
    [i \in 1..252 |-> IF i = 151 \/ i = 252 THEN "."
                      ELSE IF i <= 150 THEN "a" ELSE "b"]

ApiTexts ==
    {TextOfLen(n) : n \in {0, 1, chunk_size, chunk_size + 1}}
        \cup {TwoSentenceText}

\* a request has arrived at one of the three synthesis routes; /tts/stream
\* takes no format and answers MP3
InitApi ==
    /\ pc = "request"
    /\ endpoint \in {"tts", "stream", "stream_file"}
    /\ voice \in Voices
    /\ format \in IF endpoint = "stream" THEN {"mp3"} ELSE Formats
    /\ text \in ApiTexts
    /\ status = 0
    /\ audio = [set |-> FALSE, v |-> <<>>]
    /\ yielded = 0
    /\ pipeline_calls = <<>>
    /\ api_chunks = <<>>
    /\ ci = 0
    /\ emitted = <<>>
    /\ body = [set |-> FALSE, format |-> "", pcm |-> <<>>]
    /\ max_chars = 1
    /\ overlap = 1
    /\ LongTextEntry

SpecServe == (InitStitch \/ InitApi) /\ [][NextStitch \/ NextApi]_vars

(***************************************************************************)
(* Claims about the endpoints and about failure and order (SpecServe).     *)
(***************************************************************************)
\* C6 (format validation), as claimed: /tts answers a format it does not
\* support with status 400, without calling the pipeline.
C6_FormatValidation ==
    (endpoint = "tts" /\ format \notin SupportedFormats /\ pc # "request")
        => (status = 400 /\ pipeline_calls = <<>>)

\* C7 (language-code validation), as claimed: the three synthesis routes
\* answer a voice whose first character is no key of pipelines with status
\* 400, without calling the pipeline.
C7_LangCodeValidation ==
    (/\ endpoint \in {"tts", "stream", "stream_file"}
     /\ voice # <<>>
     /\ voice[1] \notin pipelines
     /\ pc # "request")
        => (status = 400 /\ pipeline_calls = <<>>)

\* the pipeline call and the segment of that call an encoded piece holds
PieceId(piece) == (CHOOSE t \in piece.pcm[1] : TRUE).c

\* C8 (no partial result), as claimed: once the synthesizer has raised, no
\* audio of the utterance has been returned or emitted: no waveform from
\* process_long_text, no body from the buffered routes, no piece on the
\* stream.
C8_NoPartialResult ==
    err = "SynthesisError" =>
        /\ ~result.set
        /\ ~body.set
        /\ emitted = <<>>

\* C8, amended: once the synthesizer has raised, process_long_text has left
\* with the exception and returned nothing, and a buffered route has answered
\* 500 with no body; the stream has started with status 200 and breaks off:
\* what it has emitted are pieces of segments synthesized before the failure
\* (of the calls made so far, of the failing call only segments it yielded),
\* and no call was made for a chunk after the failing one.
C8_NoPartialBuffered ==
    err = "SynthesisError" =>
        /\ ~result.set
        /\ ~body.set
        /\ endpoint = "" => (pc = "raised" /\ emitted = <<>>)
        /\ endpoint \in {"tts", "stream_file"} =>
              (pc = "responded" /\ status = 500 /\ emitted = <<>>)
        /\ endpoint = "stream" =>
              /\ pc = "aborted"
              /\ status = 200
              /\ Len(pipeline_calls) = ci + 1
              /\ \A i \in 1..Len(emitted) :
                    /\ PieceId(emitted[i])[1] <= Len(pipeline_calls)
                    /\ PieceId(emitted[i])[1] = Len(pipeline_calls)
                          => PieceId(emitted[i])[2] <= yielded

\* the synthesizer raised on the second chunk of a stream after pieces of
\* the first chunk were emitted
C8_Witness ==
    /\ endpoint = "stream"
    /\ err = "SynthesisError"
    /\ Len(pipeline_calls) = 2
    /\ Len(emitted) >= 1

MinOf(S) == CHOOSE x \in S : \A y \in S : x <= y
MaxOf(S) == CHOOSE x \in S : \A y \in S : x >= y

\* the generate() calls a sample of a stitched waveform draws on
CallsOf(x) == {t.c[1] : t \in x}

\* the samples of w keep the order of the calls they came from
InCallOrder(w) ==
    \A i, j \in 1..Len(w) :
        (i < j /\ w[i] # {} /\ w[j] # {}) =>
            /\ MinOf(CallsOf(w[i])) <= MinOf(CallsOf(w[j]))
            /\ MaxOf(CallsOf(w[i])) <= MaxOf(CallsOf(w[j]))

\* C9 (ordering): generate_audio_chunks calls the pipeline for the slices of
\* the text one at a time, in text order, and the pieces it has emitted are
\* in the order of those calls and, within a call, of its segments;
\* process_long_text calls generate for the chunks one at a time, in chunk
\* order, keeps the i-th call's waveform as the i-th segment, and the samples
\* of the stitched waveform are in the order of the calls they came from.
C9_Ordering ==
    /\ endpoint = "stream" =>
          /\ pipeline_calls = SubSeq(api_chunks, 1, Len(pipeline_calls))
          /\ Len(pipeline_calls) \in {ci, ci + 1}
          /\ pc # "stream_begin" /\ pc # "request" /\ status = 200
                => Join(api_chunks, <<>>) = text
          /\ \A i, j \in 1..Len(emitted) :
                i < j =>
                    \/ PieceId(emitted[i])[1] < PieceId(emitted[j])[1]
                    \/ /\ PieceId(emitted[i])[1] = PieceId(emitted[j])[1]
                       /\ PieceId(emitted[i])[2] < PieceId(emitted[j])[2]
    /\ endpoint = "" =>
          /\ calls = SubSeq(chunks, 1, Len(calls))
          /\ Len(calls) \in {Len(all_audio), Len(all_audio) + 1}
          /\ \A i \in 1..Len(all_audio) :
                \A j \in 1..Len(all_audio[i]) :
                    Sources(all_audio[i][j]) = {<<(<<i, 1>>), j>>}
          /\ InCallOrder(final_audio)
          /\ result.set => result.audio = final_audio

\* a stream of two chunks ended after emitting two pieces for each
C9_Witness ==
    /\ endpoint = "stream"
    /\ pc = "responded"
    /\ Len(api_chunks) = 2
    /\ Len(emitted) = 4

(***************************************************************************)
(* The scenario of the specification (Spec).                               *)
(***************************************************************************)
\* C10 (fixed scenario), as claimed: the scenario text with max_chars = 15
\* is packed into "Hello there.", "How are you? .", "I am fine.".
C10_ScenarioAsClaimed ==
    (text = ScenarioText /\ max_chars = 15 /\ pc = "generate") =>
        chunks = <<<<"H", "e", "l", "l", "o", " ", "t", "h", "e", "r", "e", ".">>,
                   <<"H", "o", "w", " ", "a", "r", "e", " ", "y", "o", "u", "?", " ", ".">>,
                   <<"I", " ", "a", "m", " ", "f", "i", "n", "e", ".">>>>

\* C10, amended: the scenario text with max_chars = 15 is packed into the two
\* chunks "Hello there." and "How are you?  I am fine." (two spaces after
\* the "?": only "." ends a sentence), from the sentences of the same text.
C10_Scenario ==
    (text = ScenarioText /\ max_chars = 15 /\ pc = "generate") =>
        /\ sentences = <<<<"H", "e", "l", "l", "o", " ", "t", "h", "e", "r", "e", ".">>,
                   <<"H", "o", "w", " ", "a", "r", "e", " ", "y", "o", "u", "?", " ", " ", "I", " ", "a", "m", " ", "f", "i", "n", "e", ".">>>>
        /\ chunks = <<<<"H", "e", "l", "l", "o", " ", "t", "h", "e", "r", "e", ".">>,
                   <<"H", "o", "w", " ", "a", "r", "e", " ", "y", "o", "u", "?", " ", " ", "I", " ", "a", "m", " ", "f", "i", "n", "e", ".">>>>

\* the scenario text has been segmented and packed
C10_Witness ==
    /\ text = ScenarioText
    /\ max_chars = 15
    /\ pc = "generate"
    /\ chunks # <<>>

(***************************************************************************)
(* C11: the buffered endpoints join the yielded segments end to end        *)
(***************************************************************************)

\* the segments 1..n of one pipeline call, of lens[s] samples each, joined
\* end to end
RECURSIVE JoinedSegments(_, _, _)
JoinedSegments(call, lens, n) ==
    IF n = 0 THEN <<>>
    ELSE JoinedSegments(call, lens, n - 1) \o Wave(<<call, n>>, lens[n])

\* C11 (concatenation length law), as claimed: on /tts and /tts/stream-file,
\* for a valid request (a supported format, a voice of a known language)
\* whose synthesizer has yielded N >= 1 segments without raising, the request
\* has not failed, the waveform held for the encoder is the N segments joined
\* end to end in order, with the sum of their sample counts, and the answer
\* is status 200 with that waveform encoded; for N >= 2 as for N = 1.
C11_ConcatLength ==
    ( /\ endpoint \in {"tts", "stream_file"}
      /\ format \in SupportedFormats
      /\ LangCodeCheck(voice).kind = ""
      /\ yielded >= 1
      /\ err \notin {"SynthesisError", "EncodeError"} )
    => /\ err = ""
       /\ audio.set
       /\ \E lens \in [1..yielded -> 1..MaxSegSamples] :
             audio.v = JoinedSegments(1, lens, yielded)
       /\ pc = "responded" =>
             /\ status = 200
             /\ body = Encode(audio.v, format)

(***************************************************************************)
(* C12: what /tts/stream cuts the text into, and what it emits             *)
(***************************************************************************)

\* the number of emitted pieces, among the first i, that came from call c
PiecesOfCall(c, i) ==
    Cardinality({j \in 1..i : PieceId(emitted[j])[1] = c})

\* the sentence, without the "." the segmenter appends, lies whole in chunk
WholeIn(sentence, chunk) ==
    \E k \in 1..Len(chunk) :
        IsPrefixAt(chunk, SubSeq(sentence, 1, Len(sentence) - 1), k)

\* C12 (streaming granularity), as claimed: a /tts/stream request that ran
\* to its end processed as many chunks as the Chunk Packer makes of the
\* text's sentences, every sentence lies whole in one of the chunks (none is
\* split over two), and exactly one encoded piece was emitted per chunk.
\* Stated for the runs that favour the claim, those where every pipeline
\* call yields exactly one segment.
C12_OnePiecePerChunk ==
    ( /\ endpoint = "stream"
      /\ pc = "responded"
      /\ status = 200
      /\ \A c \in 1..Len(pipeline_calls) : PiecesOfCall(c, Len(emitted)) = 1 )
    => LET sents == SplitSentences(text)
           packed == AfterPacking(sents, chunk_size).chunks
       IN  /\ Len(api_chunks) = Len(packed)
           /\ \A i \in 1..Len(sents) :
                 \E c \in 1..Len(api_chunks) : WholeIn(sents[i], api_chunks[c])
           /\ Len(emitted) = Len(packed)

\* C12 (streaming granularity), amended: /tts/stream cuts the text into
\* consecutive slices of chunk_size characters (every slice non-empty and at
\* most chunk_size long, every slice but the last exactly chunk_size long,
\* the slices joined giving the text back, so a sentence may be split),
\* calls the pipeline once per slice in order, and emits exactly one MP3
\* piece per segment the pipeline yields: the pieces of a call are its
\* segments 1, 2, ... in order, as many as it has yielded.
C12_StreamGranularity ==
    endpoint = "stream" =>
       /\ ( \/ pc \in {"stream_loop", "stream_drain", "aborted"}
            \/ pc = "responded" /\ status = 200 )
          => /\ Join(api_chunks, <<>>) = text
             /\ \A i \in 1..Len(api_chunks) :
                   /\ Len(api_chunks[i]) \in 1..chunk_size
                   /\ i < Len(api_chunks) => Len(api_chunks[i]) = chunk_size
             /\ pipeline_calls = SubSeq(api_chunks, 1, Len(pipeline_calls))
       /\ \A i \in 1..Len(emitted) :
             /\ emitted[i].set
             /\ emitted[i].format = "mp3"
             /\ Len(emitted[i].pcm) >= 1
             /\ \A j \in 1..Len(emitted[i].pcm) :
                   emitted[i].pcm[j] = {Term(PieceId(emitted[i]), j)}
             /\ PieceId(emitted[i])[1] \in 1..Len(pipeline_calls)
             /\ PieceId(emitted[i])[2] = PiecesOfCall(PieceId(emitted[i])[1], i)
       /\ pc = "stream_drain"
          => PiecesOfCall(Len(pipeline_calls), Len(emitted)) = yielded
       /\ pc = "responded" /\ status = 200
          => /\ pipeline_calls = api_chunks
             /\ ci = Len(api_chunks)

\* a stream of the two-sentence text ended: the second sentence was split
\* over the two slices, and three pieces were emitted for them
C12_Witness ==
    /\ endpoint = "stream"
    /\ pc = "responded"
    /\ status = 200
    /\ text = TwoSentenceText
    /\ Len(api_chunks) = 2
    /\ Len(AfterPacking(SplitSentences(text), chunk_size).chunks) = 2
    /\ api_chunks # AfterPacking(SplitSentences(text), chunk_size).chunks
    /\ Len(emitted) = 3

(***************************************************************************)
(* C13: a disconnected stream makes no further synthesizer call            *)
(***************************************************************************)

OnlyStopsAndSpace(t) ==
    \A i \in 1..Len(t) : t[i] \in Whitespace \cup {".", IdeoStop}

\* the text holds three "." in a row, which the segmenter makes an ellipsis
HasTripleDot(t) == \E i \in 1..Len(t) : IsPrefixAt(t, <<".", ".", ".">>, i)

\* C14 (text without sentences), as claimed: for a text that is empty or
\* consists only of whitespace, "." and full-width periods the segmenter
\* yields no sentence, and process_long_text produces no chunk, makes no
\* synthesizer call and returns no waveform (it ends in an error at the
\* stitching step); for a text with at least one sentence, by the first
\* crossfade there has been exactly one completed call per chunk.
C14_NoSentencesAsClaimed ==
    pc # "segment" =>
       /\ OnlyStopsAndSpace(text) =>
             /\ chunks = <<>>
             /\ calls = <<>>
             /\ ~result.set
             /\ pc \in {"pack", "generate", "raised"}
             /\ pc = "raised" => err = "IndexError"
       /\ (sentences # <<>> /\ pc \in {"stitch", "done"}) =>
             /\ calls = chunks
             /\ Len(all_audio) = Len(chunks)

\* C14, amended: the segmenter yields no sentence exactly for the texts that
\* are empty or consist only of whitespace, "." and full-width periods
\* without three "." in a row; for them process_long_text produces no chunk,
\* makes no synthesizer call, returns no waveform and can only end in the
\* IndexError of the stitching step.  For every text with at least one
\* sentence (three "." in a row make one) there is at least one chunk, the
\* calls made are for the chunks in order, one each, the stitching step does
\* not raise IndexError, and by the first crossfade there has been exactly
\* one completed call per chunk.
C14_NoSentences ==
    pc # "segment" =>
       /\ sentences = <<>>
             <=> (OnlyStopsAndSpace(text) /\ ~HasTripleDot(text))
       /\ sentences = <<>> =>
             /\ chunks = <<>>
             /\ calls = <<>>
             /\ all_audio = <<>>
             /\ ~result.set
             /\ pc \in {"pack", "generate", "raised"}
             /\ pc = "raised" => err = "IndexError"
       /\ sentences # <<>> =>
             /\ calls = SubSeq(chunks, 1, Len(calls))
             /\ err # "IndexError"
             /\ pc \notin {"segment", "pack"} => chunks # <<>>
             /\ pc \in {"stitch", "done"} =>
                   /\ calls = chunks
                   /\ Len(all_audio) = Len(chunks)

\* process_long_text ended in the IndexError of the stitching step on a text
\* of three characters, a full-width period among them
C14_Witness ==
    /\ endpoint = ""
    /\ pc = "raised"
    /\ err = "IndexError"
    /\ Len(text) = 3
    /\ \E i \in 1..Len(text) : text[i] = IdeoStop
    /\ calls = <<>>

=============================================================================
